---- MODULE Spec2Model ----
(***************************************************************************)
(* Model of crates/matrix-sdk-sqlite/src/event_cache_store.rs: the SQLite  *)
(* event cache store (media table, schema bootstrap, optional cipher).     *)
(***************************************************************************)
EXTENDS Integers, FiniteSets, Sequences, TLC

\* ------------------------------------------------------------------ bounds
MaxClock == 2       \* the clock (seconds) runs 0..MaxClock
MaxOps == 4         \* repository calls started over a behaviour of Spec
MaxOpens == 2       \* calls of open over a behaviour of SpecOpen
OpenOps == 2        \* repository calls started over a behaviour of SpecOpen
MaxVersion == 2     \* stored versions a database file may carry: 0..MaxVersion
EnvOps == 3         \* repository calls started over a behaviour of SpecEnv
PoolSize == 2       \* connections the pool hands out at once

\* --------------------------------------------------------------- constants
DATABASE_VERSION == 1

MEDIA == "media"

Procs == {1, 2}                 \* concurrent callers of the store
Uris == {"mxc_a", "mxc_b"}      \* request.source.unique_key()
Formats == {"file", "thumb"}    \* request.format.unique_key()
\* the media requests callers make: one uri in two formats, another uri in one
Requests == (Uris \X Formats) \ {<<"mxc_b", "thumb">>}
Bodies == {"x", "y"}            \* byte sequences given as content
\* passphrases are interchangeable: the first one a database file is opened
\* with is called pa, and pb is any other one
Passphrases == {"pa", "pb"}
NoCipher == "none"              \* store_cipher: None / passphrase: None
Ciphers == Passphrases \cup {NoCipher}

\* A byte string as the database holds it: either the caller's raw bytes or
\* the MessagePack serialisation of an EncryptedValue made under a key.
Raw(b) == [enc |-> "raw", key |-> "-", body |-> b]
Contents == {Raw(b) : b \in Bodies}
NoData == [enc |-> "-", key |-> "-", body |-> "-"]

\* bytes that are no serialisation of an EncryptedValue (a damaged value blob)
Garbage == [enc |-> "garbage", key |-> "-", body |-> "-"]

\* Option<Vec<u8>>
None == [some |-> FALSE, v |-> NoData]
Some(d) == [some |-> TRUE, v |-> d]

\* Result<Option<Vec<u8>>> (Result<()> is Ok(None))
Ok(o) == [tag |-> "Ok", opt |-> o, err |-> "-"]
Err(e) == [tag |-> "Err", opt |-> None, err |-> e]
NoResult == [tag |-> "-", opt |-> None, err |-> "-"]

NoOp == [name |-> "-", uri |-> "-", format |-> "-", content |-> NoData]

\* what a step hands back to a caller: the function that returns, its result,
\* and the number of rows its statement changed (the usize of `execute`)
Return(name, r, n) == [name |-> name, result |-> r, changes |-> n]
NoReturn == Return("-", NoResult, 0)

VARIABLES
    kvVersion,      \* kv["version"] of the database file
    kvCipher,       \* key material persisted in kv ("none" when absent)
    schema,         \* the tables of 001_init.sql exist
    walMode,        \* PRAGMA journal_mode = wal has been executed
    media,          \* rows of the media table
    clock,          \* strftime('%s')
    storePc,        \* position of open_with_pool / state of the store handle
    passphrase,     \* argument of open_with_pool
    version,        \* local `version` of open_with_pool
    store_cipher,   \* SqliteEventCacheStore.store_cipher
    openConn,       \* open_with_pool holds its pooled connection
    pc,             \* position of each caller's repository call
    op,             \* the call each caller is in
    conn,           \* the caller holds a pooled connection
    got,            \* `media` read by the SELECT of get_media
    ret,            \* what the last step returned to a caller (NoResult: nothing)
    txn,            \* caller whose transaction the engine is running (0: none)
    written,        \* history: per cipher and request, the content last put and not removed
    seen,           \* history: `written` of its request when a caller's SELECT ran
    opsLeft,        \* repository calls the behaviour may still start
    opensLeft       \* opens the behaviour may still start

dbVars == <<kvVersion, kvCipher, schema, walMode>>
storeVars == <<storePc, passphrase, version, store_cipher, openConn, opensLeft>>
callVars == <<pc, op, conn, got, txn, opsLeft>>
histVars == <<written, seen>>
vars == <<kvVersion, kvCipher, schema, walMode, media, clock, storePc, passphrase,
          version, store_cipher, openConn, pc, op, conn, got, ret, txn, written, seen, opsLeft,
          opensLeft>>

\* ----------------------------------------------------------- cipher layer
\* encode_key: Key::Hashed(store_cipher.hash_key(table, bytes)) or Key::Plain(bytes)
encode_key(cipher, table_name, key) ==
    IF cipher # NoCipher
    THEN [kind |-> "Hashed", key |-> cipher, ns |-> table_name, b |-> key]
    ELSE [kind |-> "Plain", key |-> "-", ns |-> "-", b |-> key]

\* encode_value: rmp_serde::to_vec_named(encrypt_value_data(value)) or value
encode_value(cipher, value) ==
    IF cipher # NoCipher
    THEN [enc |-> "msgpack", key |-> cipher, body |-> value.body]
    ELSE value

\* mutant: the stored bytes are handed back without deserialising and decrypting
decode_value_verbatim(cipher, value) == Ok(Some(value))

\* decode_value: decrypt_value_data(rmp_serde::from_slice(value)) or value
decode_value(cipher, value) ==
    IF cipher # NoCipher
    THEN IF value.enc = "msgpack" /\ value.key = cipher
         THEN Ok(Some(Raw(value.body)))
         ELSE Err("Decode")
    ELSE Ok(Some(value))

\* ------------------------------------------------------------ media table
Row(u, f, d, t) == [uri |-> u, format |-> f, data |-> d, last_access |-> t]

RowsAt(tbl, u, f) == {r \in tbl : r.uri = u /\ r.format = f}

\* mutant: a plain INSERT, the row of the same key pair is not replaced
InsertOnly(tbl, u, f, d, now) == tbl \cup {Row(u, f, d, now)}

\* mutant: the row is written with last_access 0 instead of the current time
InsertOrReplace_epoch(tbl, u, f, d, now) ==
    (tbl \ RowsAt(tbl, u, f)) \cup {Row(u, f, d, 0)}

\* INSERT OR REPLACE INTO media ... VALUES (?, ?, ?, CAST(strftime('%s') as INT))
InsertOrReplace(tbl, u, f, d, now) ==
    (tbl \ RowsAt(tbl, u, f)) \cup {Row(u, f, d, now)}

\* SELECT data FROM media WHERE uri = ? AND format = ?  (.optional())
SelectData(tbl, u, f) ==
    IF RowsAt(tbl, u, f) = {} THEN None
    ELSE Some((CHOOSE r \in RowsAt(tbl, u, f) : TRUE).data)

\* mutant: the UPDATE is left out
UpdateNothing(tbl, u, f, now) == tbl

\* mutant: the UPDATE has no WHERE clause
UpdateEveryRow(tbl, u, f, now) == {[r EXCEPT !.last_access = now] : r \in tbl}

\* UPDATE media SET last_access = CAST(strftime('%s') as INT) WHERE uri = ? AND format = ?
UpdateLastAccess(tbl, u, f, now) ==
    {IF r.uri = u /\ r.format = f THEN [r EXCEPT !.last_access = now] ELSE r : r \in tbl}

\* DELETE FROM media WHERE uri = ? AND format = ?
DeleteRow(tbl, u, f) == tbl \ RowsAt(tbl, u, f)

\* mutant: the WHERE clause is left out
DeleteEverything(tbl, u) == {}

\* DELETE FROM media WHERE uri = ?
DeleteUri(tbl, u) == {r \in tbl : r.uri # u}

\* ------------------------------------------------------------------- init
\* the state before open is called: a database file carrying version v, no
\* store handle, no call in flight
Start(v, ops, opens) ==
    /\ kvVersion = v
    /\ kvCipher = NoCipher
    /\ schema = (v > 0)
    /\ walMode = (v > 0)
    /\ media = {}
    /\ clock = 0
    /\ storePc = "closed"
    /\ passphrase = NoCipher
    /\ version = 0
    /\ store_cipher = NoCipher
    /\ openConn = FALSE
    /\ pc = [p \in Procs |-> "idle"]
    /\ op = [p \in Procs |-> NoOp]
    /\ conn = [p \in Procs |-> FALSE]
    /\ got = [p \in Procs |-> None]
    /\ ret = NoReturn
    /\ txn = 0
    /\ written = [c \in Ciphers, rq \in Requests |-> None]
    /\ seen = [p \in Procs |-> None]
    /\ opsLeft = ops
    /\ opensLeft = opens

\* a store opened once on a new database file
Init == Start(0, MaxOps, 1)

\* a store opened and reopened on a database file of any version
InitOpen == \E v \in 0..MaxVersion : Start(v, OpenOps, MaxOpens)

InUse == Cardinality({p \in Procs : conn[p]}) + (IF openConn THEN 1 ELSE 0)

\* ------------------------------------------------------------------- open
\* open_with_pool, line 75: pool.get()
OpenStart(pass) ==
    /\ storePc \in {"closed", "failed"}
    /\ pass = "pb" => kvCipher # NoCipher
    /\ opensLeft > 0
    /\ InUse < PoolSize
    /\ opensLeft' = opensLeft - 1
    /\ passphrase' = pass
    /\ openConn' = TRUE
    /\ storePc' = "load"
    /\ version' = 0
    /\ store_cipher' = NoCipher
    /\ ret' = NoReturn
    /\ UNCHANGED <<histVars, dbVars, media, clock, callVars>>

\* utils::load_db_version: 0 when the kv table does not exist
load_db_version == IF schema THEN kvVersion ELSE 0

\* mutant: init runs on every open, whatever version was loaded
OpenLoadVersion_always_init ==
    /\ storePc = "load"
    /\ version' = load_db_version
    /\ storePc' = "init_wal"
    /\ ret' = NoReturn
    /\ UNCHANGED <<histVars, dbVars, media, clock, callVars, passphrase, store_cipher,
                   openConn, opensLeft>>

\* open_with_pool, lines 76-78
OpenLoadVersion ==
    /\ storePc = "load"
    /\ version' = load_db_version
    /\ storePc' = IF load_db_version = 0 THEN "init_wal" ELSE "cipher"
    /\ ret' = NoReturn
    /\ UNCHANGED <<histVars, dbVars, media, clock, callVars, passphrase, store_cipher,
                   openConn, opensLeft>>

\* mutant: the PRAGMA is left out
InitWal_skipped ==
    /\ storePc = "init_wal"
    /\ storePc' = "init_schema"
    /\ ret' = NoReturn
    /\ UNCHANGED <<histVars, dbVars, media, clock, callVars, passphrase,
                   version, store_cipher, openConn, opensLeft>>

\* init, line 156: PRAGMA journal_mode = wal, outside any transaction
InitWal ==
    /\ storePc = "init_wal"
    /\ walMode' = TRUE
    /\ storePc' = "init_schema"
    /\ ret' = NoReturn
    /\ UNCHANGED <<histVars, kvVersion, kvCipher, schema, media, clock, callVars, passphrase,
                   version, store_cipher, openConn, opensLeft>>

\* mutant: the version is written where the schema transaction should run
InitSchema_version_first ==
    /\ storePc = "init_schema"
    /\ kvVersion' = 1
    /\ storePc' = "init_version"
    /\ ret' = NoReturn
    /\ UNCHANGED <<histVars, schema, kvCipher, walMode, media, clock, callVars, passphrase,
                   version, store_cipher, openConn, opensLeft>>

\* init, lines 157-160: 001_init.sql in one transaction
InitSchema ==
    /\ storePc = "init_schema"
    /\ schema' = TRUE
    /\ storePc' = "init_version"
    /\ ret' = NoReturn
    /\ UNCHANGED <<histVars, kvVersion, kvCipher, walMode, media, clock, callVars, passphrase,
                   version, store_cipher, openConn, opensLeft>>

\* init, line 162, and open_with_pool, line 80
InitVersion ==
    /\ storePc = "init_version"
    /\ kvVersion' = 1
    /\ version' = 1
    /\ storePc' = "cipher"
    /\ ret' = NoReturn
    /\ UNCHANGED <<histVars, kvCipher, schema, walMode, media, clock, callVars, passphrase,
                   store_cipher, openConn, opensLeft>>

\* get_or_create_store_cipher(p, &conn): the key material kv holds afterwards,
\* "fail" when kv holds material made under another passphrase
get_or_create_store_cipher(pass) ==
    IF kvCipher = NoCipher THEN pass
    ELSE IF kvCipher = pass THEN kvCipher
    ELSE "fail"

\* open_with_pool, lines 83-86
OpenCipher ==
    /\ storePc = "cipher"
    /\ IF passphrase = NoCipher
       THEN /\ store_cipher' = NoCipher
            /\ storePc' = "migrate"
            /\ UNCHANGED <<kvCipher, openConn, passphrase, version>>
       ELSE IF get_or_create_store_cipher(passphrase) # "fail"
       THEN /\ kvCipher' = get_or_create_store_cipher(passphrase)
            /\ store_cipher' = get_or_create_store_cipher(passphrase)
            /\ storePc' = "migrate"
            /\ UNCHANGED <<openConn, passphrase, version>>
       ELSE /\ storePc' = "failed"
            /\ openConn' = FALSE
            /\ passphrase' = NoCipher
            /\ version' = 0
            /\ UNCHANGED <<kvCipher, store_cipher>>
    /\ ret' = NoReturn
    /\ UNCHANGED <<histVars, kvVersion, schema, walMode, media, clock, callVars,
                   opensLeft>>

\* run_migrations(conn, from, to): the version it leaves in kv
run_migrations(stored, from, to) ==
    IF from < to THEN to ELSE stored

\* open_with_pool, lines 87-90: run_migrations(&conn, version, None), Ok(this)
OpenMigrate ==
    /\ storePc = "migrate"
    /\ kvVersion' = run_migrations(kvVersion, version, DATABASE_VERSION)
    /\ storePc' = "open"
    /\ openConn' = FALSE
    /\ passphrase' = NoCipher
    /\ version' = 0
    /\ ret' = NoReturn
    /\ UNCHANGED <<histVars, kvCipher, schema, walMode, media, clock, callVars,
                   store_cipher, opensLeft>>

\* an awaited call of open_with_pool returns an error (the `?` of lines 76-88)
OpenFail ==
    /\ storePc \in {"load", "init_wal", "init_schema", "init_version", "cipher",
                    "migrate"}
    /\ storePc' = "failed"
    /\ openConn' = FALSE
    /\ store_cipher' = NoCipher
    /\ passphrase' = NoCipher
    /\ version' = 0
    /\ ret' = NoReturn
    /\ UNCHANGED <<histVars, dbVars, media, clock, callVars, opensLeft>>

\* the store handle is dropped once no call borrows it
Close ==
    /\ storePc = "open"
    /\ \A p \in Procs : pc[p] = "idle"
    /\ storePc' = "closed"
    /\ store_cipher' = NoCipher
    /\ ret' = NoReturn
    /\ UNCHANGED <<histVars, dbVars, media, clock, callVars, passphrase, version, openConn,
                   opensLeft>>

\* ------------------------------------------------------- repository calls
\* the engine isolates transactions: a statement runs when no other
\* connection's transaction is open
EngineIdle == txn = 0

UriKey(p) == encode_key(store_cipher, MEDIA, op[p].uri)
FormatKey(p) == encode_key(store_cipher, MEDIA, op[p].format)
Request(p) == <<op[p].uri, op[p].format>>

Call(name, u, f, c) == [name |-> name, uri |-> u, format |-> f, content |-> c]

Calls ==
    {Call("Put", rq[1], rq[2], c) : rq \in Requests, c \in Contents}
    \cup {Call("Get", rq[1], rq[2], NoData) : rq \in Requests}
    \cup {Call("Remove", rq[1], rq[2], NoData) : rq \in Requests}
    \cup {Call("RemoveAll", u, "-", NoData) : u \in Uris}

\* mutant: the call returns and its pooled connection stays checked out
Finish_keeps_connection(p, name, r, n) ==
    /\ pc' = [pc EXCEPT ![p] = "idle"]
    /\ op' = [op EXCEPT ![p] = NoOp]
    /\ got' = [got EXCEPT ![p] = None]
    /\ conn' = conn
    /\ ret' = Return(name, r, n)

\* the call returns r to its caller; its pooled connection is dropped
Finish(p, name, r, n) ==
    /\ pc' = [pc EXCEPT ![p] = "idle"]
    /\ op' = [op EXCEPT ![p] = NoOp]
    /\ got' = [got EXCEPT ![p] = None]
    /\ conn' = [conn EXCEPT ![p] = FALSE]
    /\ ret' = Return(name, r, n)

\* acquire: self.pool.get().await hands out a free connection
acquire(p, o) ==
    /\ storePc = "open"
    /\ pc[p] = "idle"
    /\ opsLeft > 0
    /\ InUse < PoolSize
    /\ opsLeft' = opsLeft - 1
    /\ op' = [op EXCEPT ![p] = o]
    /\ conn' = [conn EXCEPT ![p] = TRUE]
    /\ pc' = [pc EXCEPT ![p] = "exec"]
    /\ ret' = NoReturn
    /\ UNCHANGED <<histVars, dbVars, media, clock, storeVars, got, txn>>

\* acquire: self.pool.get().await? returns the pool's error
acquire_err(p, name) ==
    /\ storePc = "open"
    /\ pc[p] = "idle"
    /\ opsLeft > 0
    /\ opsLeft' = opsLeft - 1
    /\ Finish(p, name, Err("Pool"), 0)
    /\ UNCHANGED <<histVars, dbVars, media, clock, storeVars, txn>>

\* add_media_content, lines 222-225, up to the connection
add_media_content(p, u, f, c) == acquire(p, Call("Put", u, f, c))

\* add_media_content, line 224: encode_value(content)? returns the cipher's error
add_media_content_encode_err(p) ==
    /\ storePc = "open"
    /\ pc[p] = "idle"
    /\ opsLeft > 0
    /\ store_cipher # NoCipher
    /\ opsLeft' = opsLeft - 1
    /\ Finish(p, "Put", Err("Encode"), 0)
    /\ UNCHANGED <<histVars, dbVars, media, clock, storeVars, txn>>

\* get_media_content, lines 229-231, up to the connection
get_media_content(p, u, f) == acquire(p, Call("Get", u, f, NoData))

\* remove_media_content, lines 236-238, up to the connection
remove_media_content(p, u, f) == acquire(p, Call("Remove", u, f, NoData))

\* remove_media_content_for_uri, lines 242-243, up to the connection
remove_media_content_for_uri(p, u) == acquire(p, Call("RemoveAll", u, "-", NoData))

\* set_media: one INSERT OR REPLACE statement
set_media(p) ==
    /\ pc[p] = "exec"
    /\ op[p].name = "Put"
    /\ EngineIdle
    /\ media' = InsertOrReplace(media, UriKey(p), FormatKey(p),
                                encode_value(store_cipher, op[p].content), clock)
    /\ written' = [written EXCEPT ![store_cipher, Request(p)] = Some(op[p].content)]
    /\ Finish(p, "Put", Ok(None), 1)
    /\ UNCHANGED <<dbVars, clock, storeVars, txn, seen, opsLeft>>

\* mutant: query_row without .optional(): no row is an error
get_media_select_not_optional(p) ==
    /\ pc[p] = "exec"
    /\ op[p].name = "Get"
    /\ EngineIdle
    /\ LET sel == SelectData(media, UriKey(p), FormatKey(p)) IN
       IF sel.some
       THEN /\ txn' = p
            /\ got' = [got EXCEPT ![p] = sel]
            /\ seen' = [seen EXCEPT ![p] = written[store_cipher, Request(p)]]
            /\ pc' = [pc EXCEPT ![p] = "update"]
            /\ ret' = NoReturn
            /\ UNCHANGED <<op, conn>>
       ELSE /\ txn' = 0
            /\ Finish(p, "Get", Err("QueryReturnedNoRows"), 0)
            /\ UNCHANGED seen
    /\ UNCHANGED <<dbVars, media, clock, storeVars, written, opsLeft>>

\* mutant: the SELECT runs on its own, outside a transaction
get_media_select_no_txn(p) ==
    /\ pc[p] = "exec"
    /\ op[p].name = "Get"
    /\ EngineIdle
    /\ LET sel == SelectData(media, UriKey(p), FormatKey(p)) IN
       IF sel.some
       THEN /\ got' = [got EXCEPT ![p] = sel]
            /\ seen' = [seen EXCEPT ![p] = written[store_cipher, Request(p)]]
            /\ pc' = [pc EXCEPT ![p] = "update"]
            /\ ret' = NoReturn
            /\ UNCHANGED <<op, conn>>
       ELSE /\ Finish(p, "Get", Ok(None), 0)
            /\ UNCHANGED seen
    /\ UNCHANGED <<dbVars, media, clock, storeVars, written, txn, opsLeft>>

\* get_media, lines 180-190: the transaction begins and runs the SELECT
get_media_select(p) ==
    /\ pc[p] = "exec"
    /\ op[p].name = "Get"
    /\ EngineIdle
    /\ LET sel == SelectData(media, UriKey(p), FormatKey(p)) IN
       IF sel.some
       THEN /\ txn' = p
            /\ got' = [got EXCEPT ![p] = sel]
            /\ seen' = [seen EXCEPT ![p] = written[store_cipher, Request(p)]]
            /\ pc' = [pc EXCEPT ![p] = "update"]
            /\ ret' = NoReturn
            /\ UNCHANGED <<op, conn>>
       ELSE /\ txn' = 0
            /\ Finish(p, "Get", Ok(None), 0)
            /\ UNCHANGED seen
    /\ UNCHANGED <<dbVars, media, clock, storeVars, written, opsLeft>>

\* mutant: the value is decoded inside the transaction, on the held connection
get_media_update_decode_inside(p) ==
    /\ pc[p] = "update"
    /\ pc' = [pc EXCEPT ![p] = "decode"]
    /\ ret' = NoReturn
    /\ UNCHANGED <<dbVars, media, clock, storeVars, op, got, conn, txn, histVars, opsLeft>>

\* get_media, lines 192-200: the UPDATE, the commit; the connection is dropped
get_media_update(p) ==
    /\ pc[p] = "update"
    /\ media' = UpdateLastAccess(media, UriKey(p), FormatKey(p), clock)
    /\ txn' = IF txn = p THEN 0 ELSE txn
    /\ conn' = [conn EXCEPT ![p] = FALSE]
    /\ pc' = [pc EXCEPT ![p] = "decode"]
    /\ ret' = NoReturn
    /\ UNCHANGED <<dbVars, clock, storeVars, op, got, histVars, opsLeft>>

\* get_media_content, line 232: data.map(|v| self.decode_value(&v)).transpose()
get_media_decode(p) ==
    /\ pc[p] = "decode"
    /\ Finish(p, "Get", decode_value(store_cipher, got[p].v), 1)
    /\ seen' = [seen EXCEPT ![p] = None]
    /\ UNCHANGED <<dbVars, media, clock, storeVars, txn, written, opsLeft>>

\* remove_media: one DELETE statement
remove_media(p) ==
    /\ pc[p] = "exec"
    /\ op[p].name = "Remove"
    /\ EngineIdle
    /\ media' = DeleteRow(media, UriKey(p), FormatKey(p))
    /\ written' = [written EXCEPT ![store_cipher, Request(p)] = None]
    /\ Finish(p, "Remove", Ok(None), Cardinality(media) - Cardinality(media'))
    /\ UNCHANGED <<dbVars, clock, storeVars, txn, seen, opsLeft>>

\* remove_uri_medias: one DELETE statement
remove_uri_medias(p) ==
    /\ pc[p] = "exec"
    /\ op[p].name = "RemoveAll"
    /\ EngineIdle
    /\ media' = DeleteUri(media, UriKey(p))
    /\ written' = [c \in Ciphers, rq \in Requests |->
                      IF c = store_cipher /\ rq[1] = op[p].uri THEN None
                      ELSE written[c, rq]]
    /\ Finish(p, "RemoveAll", Ok(None), Cardinality(media) - Cardinality(media'))
    /\ UNCHANGED <<dbVars, clock, storeVars, txn, seen, opsLeft>>

\* mutant: the statement fails after its row was written, and the write stays
sql_err_after_write(p) ==
    /\ pc[p] \in {"exec", "update"}
    /\ txn' = IF txn = p THEN 0 ELSE txn
    /\ media' = IF op[p].name = "Put"
                THEN InsertOrReplace(media, UriKey(p), FormatKey(p),
                                     encode_value(store_cipher, op[p].content), clock)
                ELSE media
    /\ Finish(p, op[p].name, Err("Sql"), 0)
    /\ seen' = [seen EXCEPT ![p] = None]
    /\ UNCHANGED <<dbVars, clock, storeVars, written, opsLeft>>

\* the statement or the transaction fails (`.await?`): nothing is written, an
\* open transaction is rolled back
sql_err(p) ==
    /\ pc[p] \in {"exec", "update"}
    /\ txn' = IF txn = p THEN 0 ELSE txn
    /\ Finish(p, op[p].name, Err("Sql"), 0)
    /\ seen' = [seen EXCEPT ![p] = None]
    /\ UNCHANGED <<dbVars, media, clock, storeVars, written, opsLeft>>

Tick ==
    /\ clock < MaxClock
    /\ clock' = clock + 1
    /\ ret' = NoReturn
    /\ UNCHANGED <<histVars, dbVars, media, storeVars, callVars>>

Next ==
    \/ \E pass \in Passphrases \cup {NoCipher} : OpenStart(pass)
    \/ OpenLoadVersion
    \/ InitWal
    \/ InitSchema
    \/ InitVersion
    \/ OpenCipher
    \/ OpenMigrate
    \/ OpenFail
    \/ Close
    \/ Tick
    \/ \E p \in Procs, rq \in Requests, c \in Contents :
           add_media_content(p, rq[1], rq[2], c)
    \/ \E p \in Procs : add_media_content_encode_err(p)
    \/ \E p \in Procs, rq \in Requests : get_media_content(p, rq[1], rq[2])
    \/ \E p \in Procs, rq \in Requests : remove_media_content(p, rq[1], rq[2])
    \/ \E p \in Procs, u \in Uris : remove_media_content_for_uri(p, u)
    \/ \E p \in Procs, name \in {"Put", "Get", "Remove", "RemoveAll"} :
           acquire_err(p, name)
    \/ \E p \in Procs : set_media(p)
    \/ \E p \in Procs : get_media_select(p)
    \/ \E p \in Procs : get_media_update(p)
    \/ \E p \in Procs : get_media_decode(p)
    \/ \E p \in Procs : remove_media(p)
    \/ \E p \in Procs : remove_uri_medias(p)
    \/ \E p \in Procs : sql_err(p)

Spec == Init /\ [][Next]_vars

SpecOpen == InitOpen /\ [][Next]_vars

\* ------------------------------------------------------------ environment
\* the database as the repository calls of SpecEnv find it: a new file
InitEnv == Start(0, EnvOps, 1)

\* mutant: the abandoned transaction's UPDATE stays in the table
abandon_keeps_update(p) ==
    /\ pc[p] \in {"exec", "update", "decode"}
    /\ media' = IF pc[p] = "update"
                THEN UpdateLastAccess(media, UriKey(p), FormatKey(p), clock)
                ELSE media
    /\ txn' = IF txn = p THEN 0 ELSE txn
    /\ pc' = [pc EXCEPT ![p] = "idle"]
    /\ got' = [got EXCEPT ![p] = None]
    /\ conn' = [conn EXCEPT ![p] = FALSE]
    /\ ret' = Return(op[p].name, NoResult, 0)
    /\ op' = [op EXCEPT ![p] = NoOp]
    /\ seen' = [seen EXCEPT ![p] = None]
    /\ UNCHANGED <<dbVars, clock, storeVars, written, opsLeft>>

\* the caller drops the future of its call at an await: the pooled connection
\* the future holds is dropped with it, an open transaction is rolled back, and
\* nothing is returned (ret names the call, with no result)
abandon(p) ==
    /\ pc[p] \in {"exec", "update", "decode"}
    /\ txn' = IF txn = p THEN 0 ELSE txn
    /\ pc' = [pc EXCEPT ![p] = "idle"]
    /\ got' = [got EXCEPT ![p] = None]
    /\ conn' = [conn EXCEPT ![p] = FALSE]
    /\ ret' = Return(op[p].name, NoResult, 0)
    /\ op' = [op EXCEPT ![p] = NoOp]
    /\ seen' = [seen EXCEPT ![p] = None]
    /\ UNCHANGED <<dbVars, media, clock, storeVars, written, opsLeft>>

\* the value blob of a row is damaged in the database file, outside the store
tamper(r) ==
    /\ r \in media
    /\ r.data # Garbage
    /\ media' = (media \ {r}) \cup {[r EXCEPT !.data = Garbage]}
    /\ ret' = NoReturn
    /\ UNCHANGED <<histVars, dbVars, clock, storeVars, callVars>>

NextEnv ==
    \/ Next
    \/ \E p \in Procs : abandon(p)
    \/ \E r \in media : tamper(r)

SpecEnv == InitEnv /\ [][NextEnv]_vars
\* ------------------------------------------------------------------ claims
\* a call of caller p returns in this step
Returns(p) == pc[p] # "idle" /\ pc'[p] = "idle"

\* the pool or the engine failed the call
Failed(r) == r.err \in {"Pool", "Sql"}

\* C1: round trip. A Get that neither the pool nor the engine fails returns
\* Some(b) for the b last put for its key pair under the store's cipher, when
\* no Remove or RemoveAll took that pair's row since (None when there is no such
\* put), whatever ran on other key pairs, with and without a passphrase.
C1_RoundTrip ==
    [][\A p \in Procs :
         (op[p].name = "Get" /\ Returns(p) /\ ~Failed(ret'.result))
         => ret'.result = Ok(IF pc[p] = "exec"
                             THEN written[store_cipher, Request(p)]
                             ELSE seen[p])]_vars

\* a Get on a store opened with a passphrase has returned the content put
C1_Witness ==
    /\ ret.name = "Get"
    /\ ret.result.opt.some
    /\ ret.result.opt.v \in Contents
    /\ store_cipher # NoCipher
    /\ Cardinality(media) > 1

\* the rows of caller p's key pair under the store's cipher
Mine(tbl, p) == RowsAt(tbl, UriKey(p), FormatKey(p))

\* C2: overwrite. The media table never holds two rows of one (encoded uri,
\* encoded format) pair, and a Put that succeeds leaves exactly one row for its
\* pair, holding the content it was given (what a following Get decodes).
C2_Overwrite ==
    [][/\ \A r1, r2 \in media' :
            (r1.uri = r2.uri /\ r1.format = r2.format) => r1 = r2
       /\ \A p \in Procs :
            (op[p].name = "Put" /\ Returns(p) /\ ret'.result.tag = "Ok")
            => \E r \in media' :
                 /\ Mine(media', p) = {r}
                 /\ decode_value(store_cipher, r.data) = Ok(Some(op[p].content))]_vars

\* a Get read content x, and a later Put has replaced it by y in the one row
C2_Witness ==
    \E p \in Procs :
        /\ pc[p] = "decode"
        /\ got[p].v.body = "x"
        /\ \E r \in media : Mine(media, p) = {r} /\ r.data.body = "y"

\* what Get finds for a request in table tbl under the store's cipher
Retrievable(tbl, rq) ==
    SelectData(tbl, encode_key(store_cipher, MEDIA, rq[1]),
               encode_key(store_cipher, MEDIA, rq[2]))

\* C3: scope of RemoveAll. RemoveAll(id) deletes every row whose uri is id,
\* whatever its format, and leaves every other row as it was, value and
\* last-access: afterwards exactly the requests of other uris that were
\* retrievable still are.
C3_RemoveAllScope ==
    [][\A p \in Procs :
         (op[p].name = "RemoveAll" /\ Returns(p) /\ ret'.result.tag = "Ok")
         => /\ \A r \in media' : r.uri # UriKey(p)
            /\ \A r \in media : r.uri # UriKey(p) => r \in media'
            /\ media' \subseteq media
            /\ \A rq \in Requests :
                 Retrievable(media', rq) =
                    IF rq[1] = op[p].uri THEN None ELSE Retrievable(media, rq)]_vars

\* RemoveAll has deleted the rows of two formats and left the row of another uri
C3_Witness ==
    /\ ret.name = "RemoveAll"
    /\ ret.result = Ok(None)
    /\ ret.changes = 2
    /\ Cardinality(media) = 1

\* C4: absence. A Get whose key pair has no row returns Ok(None) at once; a
\* Remove whose key pair has no row and a RemoveAll whose uri has no row return
\* Ok; none of them changes the media table (the engine failing aside).
C4_Absence ==
    [][\A p \in Procs :
         (/\ pc[p] = "exec" /\ pc'[p] # "exec" /\ ret'.result.err # "Sql"
          /\ \/ op[p].name \in {"Get", "Remove"} /\ Mine(media, p) = {}
             \/ op[p].name = "RemoveAll" /\ \A r \in media : r.uri # UriKey(p))
         => /\ Returns(p)
            /\ ret'.result = Ok(None)
            /\ media' = media]_vars

\* a Remove of a key pair without a row has returned Ok
C4_Witness ==
    /\ ret.name = "Remove"
    /\ ret.result = Ok(None)
    /\ ret.changes = 0
    /\ media # {}

\* the step has set the last-access of p's row to the current time, which is
\* later than the last-access of every row last accessed before this second
Touched(p) ==
    /\ Mine(media', p) # {}
    /\ \A r \in Mine(media', p) :
         /\ r.last_access = clock
         /\ \A o \in media \ Mine(media, p) :
              o \in media' /\ (o.last_access < clock => r.last_access > o.last_access)

\* C5: access-time ordering. A Put sets its row's last-access to the current
\* time and so does a Get that finds its row; no last-access is in the future.
\* So a row put or read after the clock advanced is strictly more recent than
\* every row put or read before.
C5_AccessTime ==
    [][/\ \A r \in media' : r.last_access <= clock'
       /\ \A p \in Procs :
            /\ (op[p].name = "Put" /\ Returns(p) /\ ret'.result.tag = "Ok")
               => Touched(p)
            /\ (pc[p] = "update" /\ pc'[p] = "decode") => Touched(p)]_vars

\* of two rows put, the one put last was the more recent; after two ticks a Get
\* of the other has made that one the more recent
C5_Witness ==
    \E p \in Procs :
        /\ pc[p] = "decode"
        /\ opsLeft = MaxOps - 3
        /\ \E a \in Mine(media, p), b \in media :
             a.last_access = 2 /\ b.last_access = 1

\* C6: atomic fetch-with-touch. Between the SELECT of a Get and its UPDATE no
\* other operation changes the media table: the row still holds the value read
\* when the UPDATE runs, and the UPDATE sets the last-access of that row.
C6_AtomicFetchTouch ==
    [][\A p \in Procs :
         pc[p] = "update"
         => /\ \E r \in media : Mine(media, p) = {r} /\ r.data = got[p].v
            /\ media' # media => pc'[p] = "decode"
            /\ pc'[p] = "decode"
               => \E r \in media' :
                    /\ Mine(media', p) = {r}
                    /\ r.data = got[p].v
                    /\ r.last_access = clock]_vars

\* a Put, Remove or RemoveAll of the same uri holds a connection while a Get is
\* between its SELECT and its UPDATE
C6_Witness ==
    \E p, q \in Procs :
        /\ pc[p] = "update"
        /\ pc[q] = "exec"
        /\ op[q].name \in {"Put", "Remove", "RemoveAll"}
        /\ op[q].uri = op[p].uri
        /\ op[q].format \in {op[p].format, "-"}

\* C7: schema version invariant. Whenever open has returned a store, the
\* stored version is DATABASE_VERSION, whatever it was before the open.
C7_VersionOnOpen == storePc = "open" => kvVersion = DATABASE_VERSION

\* C8: future schema rejected. An open that loaded a version greater than
\* DATABASE_VERSION never returns a store.
C8_FutureSchemaRejected ==
    [][(storePc = "migrate" /\ version > DATABASE_VERSION) => storePc' # "open"]_vars

\* the cipher configurations other than the store's under which the content of
\* request rq is in the table
WrittenUnderOther(rq) ==
    {c \in Ciphers \ {store_cipher} : written[c, rq].some}

\* C9: decryption failure is never reported as absence. A Get of a key pair
\* whose row was written under other key material than the store's cipher
\* returns a decoding error: never None, never the stored bytes.
C9_DecryptFailureNotAbsence ==
    [][\A p \in Procs :
         (/\ op[p].name = "Get" /\ pc[p] = "exec" /\ pc'[p] # "exec"
          /\ ~Failed(ret'.result)
          /\ ~written[store_cipher, Request(p)].some
          /\ WrittenUnderOther(Request(p)) # {})
         => ret'.result = Err("Decode")]_vars

\* C10: a failed operation does not poison the store. No step of a Put that
\* fails changes the media table; a step that returns an error changes neither
\* the table nor the database nor the store handle, and leaves its caller
\* without connection and transaction, free to call again.
C10_NoPoison ==
    [][/\ ret'.result.tag = "Err"
          => media' = media /\ dbVars' = dbVars
             /\ <<storePc, store_cipher>>' = <<storePc, store_cipher>>
       /\ \A p \in Procs :
            /\ (pc[p] = "idle" /\ pc'[p] # "idle") => media' = media
            /\ (/\ op[p].name = "Put" /\ pc'[p] # pc[p]
                /\ ~(Returns(p) /\ ret'.result.tag = "Ok"))
               => media' = media
            /\ (ret'.result.tag = "Err" /\ Returns(p))
               => /\ ~conn'[p]
                  /\ txn' # p
                  /\ (txn # p => txn' = txn)]_vars

\* a Put has failed on a table that holds rows
C10_Witness ==
    /\ ret.name = "Put"
    /\ ret.result.tag = "Err"
    /\ ret.result.err \in {"Encode", "Sql"}
    /\ media # {}

\* C11: migration idempotence. While no store is open, on a database whose
\* stored version is DATABASE_VERSION, no step of an open (nor of anything
\* else) runs init, creates the schema, writes the version or changes a media
\* row: after any number of opens the table and the version are what they were.
C11_MigrationIdempotence ==
    [][(storePc # "open" /\ schema /\ kvVersion = DATABASE_VERSION)
       => /\ storePc' \notin {"init_wal", "init_schema", "init_version"}
          /\ schema' = schema
          /\ walMode' = walMode
          /\ kvVersion' = kvVersion
          /\ media' = media]_vars

\* a store holding media was dropped and the database opened a second time
C11_Witness ==
    /\ storePc = "open"
    /\ opensLeft = MaxOpens - 2
    /\ kvVersion = DATABASE_VERSION
    /\ media # {}

\* C12: a retried open resumes. Once the schema transaction of init has
\* committed, no later open enters init again and none runs the schema
\* transaction a second time, whatever step the earlier open failed at.
C12_RetriedOpenResumes ==
    [][/\ (storePc = "load" /\ schema) => storePc' # "init_wal"
       /\ (storePc = "init_schema" /\ storePc' = "init_version") => ~schema]_vars

\* the highest schema version whose statements are committed (001_init.sql is
\* the only schema step there is)
SchemaApplied == IF schema THEN DATABASE_VERSION ELSE 0

\* C13: the version never runs ahead of the schema. In every state of a
\* database this code created, the states an open leaves when it fails at any
\* step included, the stored version is at most the schema version applied.
C13_VersionNotAhead == kvVersion <= SchemaApplied

\* an open failed between the schema transaction and the write of the version
C13_Witness ==
    /\ storePc = "failed"
    /\ schema
    /\ kvVersion = 0

\* C14: migrations in order. Every change of the stored version raises it by
\* one, and is made in the transaction that applies that version's schema
\* changes (the same step of the database).
C14_InOrderTransactional ==
    [][kvVersion' # kvVersion
       => /\ kvVersion' = kvVersion + 1
          /\ schema' # schema]_vars

\* the callers whose repository call is in flight
InFlight == {p \in Procs : pc[p] # "idle"}

\* the callers holding a pooled connection
CheckedOut == {p \in Procs : conn[p]}

\* C15: connection discipline. A call takes its connection once, as it starts;
\* holds it only while its one statement or one transaction runs; changes the
\* table only in the step that gives the connection back; holds none once it
\* has returned, with Ok or with Err. No more connections are checked out than
\* calls are in flight, and none when no call is.
C15_ConnectionDiscipline ==
    [][/\ \A p \in Procs :
            /\ (~conn[p] /\ conn'[p]) => (pc[p] = "idle" /\ pc'[p] = "exec")
            /\ conn'[p] => pc'[p] \in {"exec", "update"}
            /\ Returns(p) => ~conn'[p]
       /\ media' # media => Cardinality(CheckedOut \ CheckedOut') = 1
       /\ CheckedOut' \subseteq InFlight'
       /\ Cardinality(CheckedOut') <= PoolSize
       /\ (InFlight' = {} /\ storePc' = "open") => InUse' = 0]_vars

\* a Get that has given its connection back is decoding while another call
\* holds a connection
C15_Witness ==
    \E p, q \in Procs :
        /\ pc[p] = "decode"
        /\ ~conn[p]
        /\ pc[q] = "exec"
        /\ conn[q]
        /\ InUse = 1

\* C16: write-ahead mode precedes the first transaction. On a database at
\* version 0 the journal mode is set in a step of its own, in no transaction
\* and before the schema exists; the schema transaction runs with write-ahead
\* mode on; the version is written, as 1, only once the schema is committed.
C16_WalBeforeFirstTransaction ==
    [][/\ walMode' # walMode
          => /\ storePc = "init_wal"
             /\ txn = 0
             /\ ~schema
             /\ schema' = schema
             /\ kvVersion' = kvVersion
       /\ (storePc = "init_schema" /\ storePc' = "init_version") => walMode
       /\ schema' # schema => (walMode /\ kvVersion' = kvVersion)
       /\ kvVersion' # kvVersion
          => /\ storePc = "init_version"
             /\ schema
             /\ walMode
             /\ kvVersion = 0
             /\ kvVersion' = 1]_vars

\* the open of a new database file has returned a store: write-ahead mode is
\* on, the schema exists, the version is 1
C16_Witness ==
    /\ storePc = "open"
    /\ opsLeft = MaxOps
    /\ walMode
    /\ schema
    /\ kvVersion = 1

\* the rows of a table without their last-access
Values(tbl) == {[uri |-> r.uri, format |-> r.format, data |-> r.data] : r \in tbl}

\* C18: Get changes timestamps only. No step of a Get adds a row, removes a
\* row or changes a stored value; every row of another key pair stays as it
\* is, last-access included; a Get whose pair has no row changes nothing.
C18_GetTouchesOnly ==
    [][\A p \in Procs :
         ((op[p].name = "Get" \/ op'[p].name = "Get") /\ pc'[p] # pc[p])
         => /\ Values(media') = Values(media)
            /\ Cardinality(media') = Cardinality(media)
            /\ \A r \in media : r \notin Mine(media, p) => r \in media'
            /\ (op[p].name = "Get" /\ Mine(media, p) = {}) => media' = media
            /\ media' # media => (pc[p] = "update" /\ pc'[p] = "decode")]_vars

\* a Get has returned content from a table of two rows last accessed at
\* different times
C18_Witness ==
    /\ ret.name = "Get"
    /\ ret.result.opt.some
    /\ ret.changes = 1
    /\ \E a, b \in media : a.last_access < b.last_access

\* C20: last-access is monotone. The clock never goes back; the last-access of
\* a key pair's row never decreases from one state to the next while the pair
\* keeps a row, a replacing Put included; no last-access is ahead of the clock.
C20_LastAccessMonotone ==
    [][/\ clock' >= clock
       /\ \A r \in media, s \in media' :
            (r.uri = s.uri /\ r.format = s.format) => s.last_access >= r.last_access
       /\ \A s \in media' : s.last_access <= clock']_vars

\* a Put is about to replace a row that was last accessed in an earlier second,
\* itself written or read after the clock had advanced
C20_Witness ==
    \E p \in Procs :
        /\ pc[p] = "exec"
        /\ op[p].name = "Put"
        /\ \E r \in Mine(media, p) : 0 < r.last_access /\ r.last_access < clock

\* the caller of p's call drops it in this step
Abandoned(p) == pc[p] # "idle" /\ pc'[p] = "idle" /\ ret'.result = NoResult

\* C17: cancellation safety. A call abandoned at any point leaves its caller
\* without connection and without transaction, takes no other caller's
\* transaction, and changes neither the media table nor the database: a Get
\* abandoned inside its transaction leaves no last-access written, so no other
\* call sees an effect of a transaction that did not commit.
C17_CancellationSafety ==
    [][\A p \in Procs :
         Abandoned(p)
         => /\ ~conn'[p]
            /\ txn' # p
            /\ (txn # p => txn' = txn)
            /\ InUse' = InUse - (IF conn[p] THEN 1 ELSE 0)
            /\ media' = media
            /\ dbVars' = dbVars
            /\ \A q \in Procs \ {p} : pc'[q] = pc[q] /\ conn'[q] = conn[q]]_vars

\* a Get was abandoned: the pool has every connection back, no transaction is
\* open, and the row it would have touched keeps its earlier last-access
C17_Witness ==
    /\ ret.name = "Get"
    /\ ret.result = NoResult
    /\ InUse = 0
    /\ txn = 0
    /\ opsLeft = EnvOps - 2
    /\ \E r \in media : r.last_access < clock

\* C19: the touch is committed before decoding. When a Get goes on to decode,
\* its transaction has committed the row's last-access as the current time and
\* its connection is back in the pool; it holds neither while it decodes; a
\* decoding error is returned from there, and leaves the touched row as it is.
C19_TouchBeforeDecode ==
    [][\A p \in Procs :
         /\ (pc[p] # "decode" /\ pc'[p] = "decode")
            => /\ pc[p] = "update"
               /\ \E r \in media' : Mine(media', p) = {r} /\ r.last_access = clock
         /\ pc'[p] = "decode" => (~conn'[p] /\ txn' # p)
         /\ (pc[p] # "idle" /\ pc'[p] = "idle" /\ ret'.result.err = "Decode")
            => /\ pc[p] = "decode"
               /\ ~conn[p]
               /\ media' = media]_vars

\* a Get of a damaged value has returned a decoding error, and the row carries
\* the time of that Get
C19_Witness ==
    /\ ret.name = "Get"
    /\ ret.result = Err("Decode")
    /\ clock > 0
    /\ \E r \in media : r.data = Garbage /\ r.last_access = clock

====
